---- MODULE Spec2Model ----
(***************************************************************************)
(* Model of main.py: the license compliance checker.                       *)
(*                                                                         *)
(* Text is modelled character by character: a Python str is a sequence of  *)
(* one-character strings, so splitting, stripping, lower-casing and prefix *)
(* tests are computed the way the interpreter computes them.  A Python     *)
(* dict is a record [keys, val]: keys is the insertion order, val the      *)
(* mapping.  The two pip commands are the environment: each invocation     *)
(* returns an outcome drawn from a bounded set of standard outputs, a      *)
(* non-zero exit status, or a failure to launch.                           *)
(***************************************************************************)
EXTENDS Integers, Sequences, FiniteSets, TLC

VARIABLES pc, project_is_dir, output_format, dependencies, idx, calls, stdout, exit_status

vars == <<pc, project_is_dir, output_format, dependencies, idx, calls, stdout, exit_status>>

\* Bound of the model: the number of lines "pip show" writes.
MaxShowLines == 2

-----------------------------------------------------------------------------
\* Python str operations

NL == "\n"
Whitespace == {" ", NL, "\t"}

UpperCase == <<"A", "B", "C", "D", "E", "F", "G", "H", "I", "J", "K", "L", "M", "N", "O", "P", "Q", "R", "S", "T", "U", "V", "W", "X", "Y", "Z">>
LowerCase == <<"a", "b", "c", "d", "e", "f", "g", "h", "i", "j", "k", "l", "m", "n", "o", "p", "q", "r", "s", "t", "u", "v", "w", "x", "y", "z">>

Range(s) == {s[i] : i \in 1..Len(s)}

\* str.lower(), one character
ToLower ==
    [c \in Range(UpperCase) |-> LowerCase[CHOOSE i \in 1..Len(UpperCase) : UpperCase[i] = c]]

LowerChar(c) == IF c \in DOMAIN ToLower THEN ToLower[c] ELSE c

\* str.lower()
lower(s) == [i \in 1..Len(s) |-> LowerChar(s[i])]

\* str.startswith(prefix)
startswith(s, prefix) ==
    /\ Len(prefix) <= Len(s)
    /\ SubSeq(s, 1, Len(prefix)) = prefix

\* str.find(sub), 1-based; 0 when sub does not occur
find(s, sub) ==
    LET hits == {i \in 1..(Len(s) - Len(sub) + 1) :
                    s[i] = sub[1] /\ SubSeq(s, i, i + Len(sub) - 1) = sub}
    IN  IF hits = {} THEN 0 ELSE CHOOSE i \in hits : \A j \in hits : i <= j

\* sub in s
contains(s, sub) == find(s, sub) # 0

\* str.strip()
strip(s) ==
    IF \A i \in 1..Len(s) : s[i] \in Whitespace THEN <<>>
    ELSE LET lo == CHOOSE i \in 1..Len(s) :
                       s[i] \notin Whitespace /\ \A j \in 1..(i - 1) : s[j] \in Whitespace
             hi == CHOOSE i \in 1..Len(s) :
                       s[i] \notin Whitespace /\ \A j \in (i + 1)..Len(s) : s[j] \in Whitespace
         IN  SubSeq(s, lo, hi)

\* str.split(sep): every occurrence of sep separates two parts
RECURSIVE split(_, _)
split(s, sep) ==
    LET i == find(s, sep)
    IN  IF i = 0 THEN <<s>>
        ELSE <<SubSeq(s, 1, i - 1)>> \o split(SubSeq(s, i + Len(sep), Len(s)), sep)

\* str.split(sep, 1): only the first occurrence of sep separates
split1(s, sep) ==
    LET i == find(s, sep)
    IN  IF i = 0 THEN <<s>>
        ELSE <<SubSeq(s, 1, i - 1), SubSeq(s, i + Len(sep), Len(s))>>

\* str.splitlines()
RECURSIVE splitlines(_)
splitlines(s) ==
    IF s = <<>> THEN <<>>
    ELSE LET i == find(s, <<NL>>)
         IN  IF i = 0 THEN <<s>>
             ELSE <<SubSeq(s, 1, i - 1)>> \o splitlines(SubSeq(s, i + 1, Len(s)))

-----------------------------------------------------------------------------
\* Python dict operations (insertion ordered)

EmptyDict == [keys |-> <<>>, val |-> <<>>]

\* Variant of DictSet: a new key goes first
DictSet_newkeyfirst(d, k, v) ==
    [keys |-> IF k \in Range(d.keys) THEN d.keys ELSE <<k>> \o d.keys,
     val  |-> (k :> v) @@ d.val]

\* d[k] = v: a new key goes last, an existing key keeps its place
DictSet(d, k, v) ==
    [keys |-> IF k \in Range(d.keys) THEN d.keys ELSE Append(d.keys, k),
     val  |-> (k :> v) @@ d.val]

HasKey(d, k) == k \in Range(d.keys)

\* d.get(k, default)
DictGet(d, k, default) == IF HasKey(d, k) THEN d.val[k] ELSE default

-----------------------------------------------------------------------------
\* String literals of the program

UNKNOWN == <<"U", "N", "K", "N", "O", "W", "N">>
EqEq == <<"=", "=">>
Colon == <<":">>
LicensePrefix == <<"l", "i", "c", "e", "n", "s", "e", ":">>
HomePagePrefix == <<"h", "o", "m", "e", "-", "p", "a", "g", "e", ":">>
KeyVersion == <<"v", "e", "r", "s", "i", "o", "n">>
KeyLicense == <<"l", "i", "c", "e", "n", "s", "e">>
KeyHomepage == <<"h", "o", "m", "e", "p", "a", "g", "e">>
CmdFreeze == <<"f", "r", "e", "e", "z", "e">>
CmdShow == <<"s", "h", "o", "w">>

-----------------------------------------------------------------------------
\* The environment: what the two pip commands can answer

\* subprocess.run outcomes: exit status 0 with a standard output, a non-zero
\* exit status (CalledProcessError under check=True), or no process at all
\* (OSError: pip cannot be launched)
Ok(out) == [status |-> "ok", stdout |-> out]
NonZero == [status |-> "nonzero", stdout |-> <<>>]
NoLaunch == [status |-> "oserror", stdout |-> <<>>]

\* a command's standard output: every line ends with a newline
RECURSIVE JoinLines(_)
JoinLines(lines) ==
    IF lines = <<>> THEN <<>> ELSE Head(lines) \o <<NL>> \o JoinLines(Tail(lines))

SeqsUpTo(S, n) == UNION {[1..k -> S] : k \in 0..n}

\* standard outputs of "pip freeze": no package; two packages; a line without
\* "==" and a blank line between two packages; a repeated line; "===" (one
\* "==" followed by "="); a line with "==" twice, alone and between two packages
FreezeStdouts ==
    { <<>>,
      \* "alpha==1.0\nbeta==2.3\n"
      <<"a", "l", "p", "h", "a", "=", "=", "1", ".", "0", "\n", "b", "e", "t", "a", "=", "=", "2", ".", "3", "\n">>,
      \* "beta==2.3\n-e x\n\nalpha==1.0\n"
      <<"b", "e", "t", "a", "=", "=", "2", ".", "3", "\n", "-", "e", " ", "x", "\n", "\n", "a", "l", "p", "h", "a", "=", "=", "1", ".", "0", "\n">>,
      \* "-e x\n"
      <<"-", "e", " ", "x", "\n">>,
      \* "alpha==1.0\nalpha==1.0\n"
      <<"a", "l", "p", "h", "a", "=", "=", "1", ".", "0", "\n", "a", "l", "p", "h", "a", "=", "=", "1", ".", "0", "\n">>,
      \* "beta===2.3\n"
      <<"b", "e", "t", "a", "=", "=", "=", "2", ".", "3", "\n">>,
      \* "g==1==2\n"
      <<"g", "=", "=", "1", "=", "=", "2", "\n">>,
      \* "alpha==1.0\ng==1==2\nbeta==2.3\n"
      <<"a", "l", "p", "h", "a", "=", "=", "1", ".", "0", "\n", "g", "=", "=", "1", "=", "=", "2", "\n", "b", "e", "t", "a", "=", "=", "2", ".", "3", "\n">> }

\* lines of "pip show": the last one matches no prefix unless the output
\* starts with it, where the strip of _execute_command removes its blank
ShowLines ==
    { \* "License: MIT"
      <<"L", "i", "c", "e", "n", "s", "e", ":", " ", "M", "I", "T">>,
      \* "Home-page: http://a.example"
      <<"H", "o", "m", "e", "-", "p", "a", "g", "e", ":", " ", "h", "t", "t", "p", ":", "/", "/", "a", ".", "e", "x", "a", "m", "p", "l", "e">>,
      \* "LICENSE:GPL"
      <<"L", "I", "C", "E", "N", "S", "E", ":", "G", "P", "L">>,
      \* "home-page: b"
      <<"h", "o", "m", "e", "-", "p", "a", "g", "e", ":", " ", "b">>,
      \* " License: B"
      <<" ", "L", "i", "c", "e", "n", "s", "e", ":", " ", "B">> }

FreezeOutcomes == {Ok(out) : out \in FreezeStdouts} \cup {NonZero, NoLaunch}

ShowOutcomes ==
    {Ok(JoinLines(ls)) : ls \in SeqsUpTo(ShowLines, MaxShowLines)}
        \cup {NonZero, NoLaunch}

-----------------------------------------------------------------------------
\* LicenseComplianceChecker

\* _execute_command: the stripped standard output, or the exception raised.
\* Only CalledProcessError is caught (and re-raised); OSError passes through.
execute_command(outcome) ==
    CASE outcome.status = "ok"      -> [raised |-> "none", value |-> strip(outcome.stdout)]
      [] outcome.status = "nonzero" -> [raised |-> "CalledProcessError", value |-> <<>>]
      [] OTHER                      -> [raised |-> "OSError", value |-> <<>>]

\* the for loop of _get_dependencies over output.splitlines(); the unpacking
\* "package_name, package_version = line.split('==')" raises ValueError unless
\* the split yields exactly two parts
RECURSIVE FreezeLoop(_, _)
FreezeLoop(deps, lines) ==
    IF lines = <<>> THEN [deps |-> deps, raised |-> "none"]
    ELSE LET line == Head(lines)
         IN  IF contains(line, EqEq)
             THEN LET parts == split(line, EqEq)
                  IN  IF Len(parts) # 2
                      THEN [deps |-> deps, raised |-> "ValueError"]
                      ELSE FreezeLoop(
                               DictSet(deps, parts[1],
                                       DictSet(EmptyDict, KeyVersion, parts[2])),
                               Tail(lines))
             ELSE FreezeLoop(deps, Tail(lines))

\* Variant of get_dependencies: a failed command is logged and the run goes
\* on with the mapping as it is
get_dependencies_continues(deps, outcome) ==
    LET r == execute_command(outcome)
    IN  IF r.raised = "none"
        THEN FreezeLoop(deps, splitlines(r.value))
        ELSE [deps |-> deps, raised |-> "none"]

\* _get_dependencies: CalledProcessError is turned into sys.exit(1); any other
\* exception leaves the method
get_dependencies(deps, outcome) ==
    LET r == execute_command(outcome)
    IN  CASE r.raised = "none"               -> FreezeLoop(deps, splitlines(r.value))
          [] r.raised = "CalledProcessError" -> [deps |-> deps, raised |-> "SystemExit"]
          [] OTHER                           -> [deps |-> deps, raised |-> r.raised]

\* Variant of LicenseLoop without the break: the last License line wins
RECURSIVE LicenseLoop_lastwins(_, _)
LicenseLoop_lastwins(rec, lines) ==
    IF lines = <<>> THEN [rec |-> rec, license_info |-> UNKNOWN]
    ELSE LET line == Head(lines)
             rest == LicenseLoop_lastwins(rec, Tail(lines))
         IN  IF startswith(lower(line), LicensePrefix)
             THEN [rec |-> rest.rec,
                   license_info |->
                       IF \E j \in 1..Len(Tail(lines)) :
                              startswith(lower(Tail(lines)[j]), LicensePrefix)
                       THEN rest.license_info
                       ELSE strip(split1(line, Colon)[2])]
             ELSE IF startswith(lower(line), HomePagePrefix)
             THEN LicenseLoop_lastwins(
                      DictSet(rec, KeyHomepage, strip(split1(line, Colon)[2])),
                      Tail(lines))
             ELSE rest

\* Variant of LicenseLoop that keeps scanning for Home-page lines after the
\* first License line
RECURSIVE LicenseLoop_scanall(_, _)
LicenseLoop_scanall(rec, lines) ==
    IF lines = <<>> THEN [rec |-> rec, license_info |-> UNKNOWN]
    ELSE LET line == Head(lines)
         IN  IF startswith(lower(line), LicensePrefix)
             THEN [rec |-> LicenseLoop_scanall(rec, Tail(lines)).rec,
                   license_info |-> strip(split1(line, Colon)[2])]
             ELSE IF startswith(lower(line), HomePagePrefix)
             THEN LicenseLoop_scanall(
                      DictSet(rec, KeyHomepage, strip(split1(line, Colon)[2])),
                      Tail(lines))
             ELSE LicenseLoop_scanall(rec, Tail(lines))

\* the for loop of _get_license_info over output.splitlines(): rec is the
\* package's record, the result carries license_info as the loop leaves it
RECURSIVE LicenseLoop(_, _)
LicenseLoop(rec, lines) ==
    IF lines = <<>> THEN [rec |-> rec, license_info |-> UNKNOWN]
    ELSE LET line == Head(lines)
         IN  IF startswith(lower(line), LicensePrefix)
             THEN [rec |-> rec, license_info |-> strip(split1(line, Colon)[2])]
             ELSE IF startswith(lower(line), HomePagePrefix)
             THEN LicenseLoop(DictSet(rec, KeyHomepage, strip(split1(line, Colon)[2])),
                              Tail(lines))
             ELSE LicenseLoop(rec, Tail(lines))

\* Variant of get_license_info whose except clauses do not cover the failure:
\* the exception leaves the method
get_license_info_propagates(deps, package_name, outcome) ==
    LET r == execute_command(outcome)
        rec == deps.val[package_name]
    IN  IF r.raised = "none"
        THEN LET l == LicenseLoop(rec, splitlines(r.value))
             IN  [deps |-> [deps EXCEPT !.val[package_name] =
                                DictSet(l.rec, KeyLicense, l.license_info)],
                  raised |-> "none"]
        ELSE [deps |-> deps, raised |-> r.raised]

\* Variant of get_license_info that stores the UNKNOWN default in the record
\* before the loop and the license found after it
get_license_info_licensefirst(deps, package_name, outcome) ==
    LET r == execute_command(outcome)
        rec == DictSet(deps.val[package_name], KeyLicense, UNKNOWN)
    IN  IF r.raised = "none"
        THEN LET l == LicenseLoop(rec, splitlines(r.value))
             IN  [deps |-> [deps EXCEPT !.val[package_name] =
                                DictSet(l.rec, KeyLicense, l.license_info)],
                  raised |-> "none"]
        ELSE [deps |-> [deps EXCEPT !.val[package_name] = rec], raised |-> "none"]

\* Variant of get_license_info whose except clauses replace the record
get_license_info_replacesrecord(deps, package_name, outcome) ==
    LET r == execute_command(outcome)
        rec == deps.val[package_name]
    IN  IF r.raised = "none"
        THEN LET l == LicenseLoop(rec, splitlines(r.value))
             IN  [deps |-> [deps EXCEPT !.val[package_name] =
                                DictSet(l.rec, KeyLicense, l.license_info)],
                  raised |-> "none"]
        ELSE [deps |-> [deps EXCEPT !.val[package_name] =
                            DictSet(EmptyDict, KeyLicense, UNKNOWN)],
              raised |-> "none"]

\* _get_license_info: both except clauses record UNKNOWN and return normally
get_license_info(deps, package_name, outcome) ==
    LET r == execute_command(outcome)
        rec == deps.val[package_name]
    IN  IF r.raised = "none"
        THEN LET l == LicenseLoop(rec, splitlines(r.value))
             IN  [deps |-> [deps EXCEPT !.val[package_name] =
                                DictSet(l.rec, KeyLicense, l.license_info)],
                  raised |-> "none"]
        ELSE [deps |-> [deps EXCEPT !.val[package_name] =
                            DictSet(rec, KeyLicense, UNKNOWN)],
              raised |-> "none"]

\* separator.join(parts)
RECURSIVE join(_, _)
join(sep, parts) ==
    IF parts = <<>> THEN <<>>
    ELSE IF Len(parts) = 1 THEN parts[1]
    ELSE parts[1] \o sep \o join(sep, Tail(parts))

Quote(s) == <<"\"">> \o s \o <<"\"">>

\* json.dumps of one record at nesting level 1, indent=4 (the values of the
\* model hold no character that JSON escapes)
json_record(rec) ==
    <<"{", "\n">>
    \o join(<<",", "\n">>,
            [i \in 1..Len(rec.keys) |->
                <<" ", " ", " ", " ", " ", " ", " ", " ">> \o Quote(rec.keys[i]) \o <<":", " ">> \o Quote(rec.val[rec.keys[i]])])
    \o <<"\n", " ", " ", " ", " ", "}">>

\* json.dumps(self.dependencies, indent=4): keys in insertion order
json_dumps(deps) ==
    IF deps.keys = <<>> THEN <<"{", "}">>
    ELSE <<"{", "\n">>
         \o join(<<",", "\n">>,
                 [i \in 1..Len(deps.keys) |->
                     <<" ", " ", " ", " ">> \o Quote(deps.keys[i]) \o <<":", " ">>
                     \o json_record(deps.val[deps.keys[i]])])
         \o <<"\n", "}">>

\* the text branch of generate_report
RECURSIVE text_blocks(_, _)
text_blocks(deps, i) ==
    IF i > Len(deps.keys) THEN <<>>
    ELSE LET package_name == deps.keys[i]
             info == deps.val[package_name]
         IN  <<"\n", "P", "a", "c", "k", "a", "g", "e", ":", " ">> \o package_name \o <<NL>>
             \o <<" ", " ", "V", "e", "r", "s", "i", "o", "n", ":", " ">> \o DictGet(info, KeyVersion, UNKNOWN) \o <<NL>>
             \o <<" ", " ", "L", "i", "c", "e", "n", "s", "e", ":", " ">> \o DictGet(info, KeyLicense, UNKNOWN) \o <<NL>>
             \o <<" ", " ", "H", "o", "m", "e", "p", "a", "g", "e", ":", " ">> \o DictGet(info, KeyHomepage, UNKNOWN) \o <<NL>>
             \o text_blocks(deps, i + 1)

\* generate_report
generate_report(deps, format) ==
    IF format = "json" THEN json_dumps(deps)
    ELSE <<"L", "i", "c", "e", "n", "s", "e", " ", "C", "o", "m", "p", "l", "i", "a", "n", "c", "e", " ", "R", "e", "p", "o", "r", "t", ":", "\n">> \o text_blocks(deps, 1)

\* Variant of valid_project_path: no validation
valid_project_path_unchecked(is_dir) == TRUE

\* os.path.isdir(project_path): the validation of main
valid_project_path(is_dir) == is_dir

-----------------------------------------------------------------------------
\* The run of main()

Call(cmd, package_name, outcome) ==
    [cmd |-> cmd, package_name |-> package_name, result |-> outcome]

Init ==
    /\ pc = "main"
    /\ project_is_dir \in BOOLEAN
    /\ output_format \in {"text", "json"}
    /\ dependencies = EmptyDict
    /\ idx = 1
    /\ calls = <<>>
    /\ stdout = <<>>
    /\ exit_status = {}

\* main: the path is not a directory: logging.error, sys.exit(1)
MainInvalidPath ==
    /\ pc = "main"
    /\ ~valid_project_path(project_is_dir)
    /\ pc' = "exited"
    /\ exit_status' = {1}
    /\ UNCHANGED <<project_is_dir, output_format, dependencies, idx, calls, stdout>>

\* main: the path is a directory: the checker is constructed, scan_licenses is called
MainValidPath ==
    /\ pc = "main"
    /\ valid_project_path(project_is_dir)
    /\ pc' = "get_dependencies"
    /\ dependencies' = EmptyDict
    /\ UNCHANGED <<project_is_dir, output_format, idx, calls, stdout, exit_status>>

\* scan_licenses: self._get_dependencies(); SystemExit and every Exception
\* reaching main end the process with status 1
GetDependencies ==
    /\ pc = "get_dependencies"
    /\ \E outcome \in FreezeOutcomes :
          LET r == get_dependencies(dependencies, outcome)
          IN  /\ calls' = Append(calls, Call(CmdFreeze, <<>>, outcome))
              /\ dependencies' = r.deps
              /\ IF r.raised = "none"
                 THEN /\ pc' = "resolve"
                      /\ exit_status' = exit_status
                 ELSE /\ pc' = "exited"
                      /\ exit_status' = {1}
    /\ idx' = 1
    /\ UNCHANGED <<project_is_dir, output_format, stdout>>

\* scan_licenses: one iteration of "for package_name in self.dependencies"
GetLicenseInfo ==
    /\ pc = "resolve"
    /\ idx <= Len(dependencies.keys)
    /\ \E outcome \in ShowOutcomes :
          LET package_name == dependencies.keys[idx]
              r == get_license_info(dependencies, package_name, outcome)
          IN  /\ calls' = Append(calls, Call(CmdShow, package_name, outcome))
              /\ dependencies' = r.deps
              /\ IF r.raised = "none"
                 THEN /\ pc' = "resolve"
                      /\ idx' = idx + 1
                      /\ exit_status' = exit_status
                 ELSE /\ pc' = "exited"
                      /\ idx' = idx
                      /\ exit_status' = {1}
    /\ UNCHANGED <<project_is_dir, output_format, stdout>>

\* main: the loop is over: report = checker.generate_report(); print(report);
\* main returns and the process ends with status 0
GenerateReport ==
    /\ pc = "resolve"
    /\ idx > Len(dependencies.keys)
    /\ stdout' = generate_report(dependencies, output_format) \o <<NL>>
    /\ pc' = "exited"
    /\ exit_status' = {0}
    /\ UNCHANGED <<project_is_dir, output_format, dependencies, idx, calls>>

Next ==
    \/ MainInvalidPath
    \/ MainValidPath
    \/ GetDependencies
    \/ GetLicenseInfo
    \/ GenerateReport

Spec == Init /\ [][Next]_vars

-----------------------------------------------------------------------------
\* Vocabulary of the properties

\* the invocation of "pip freeze" and those of "pip show"
FreezeDone == Len(calls) >= 1
ShowCalls == 2..Len(calls)
Succeeded(i) == calls[i].result.status = "ok"

\* the output a method works on: what _execute_command returned
OutputLines(i) == splitlines(strip(calls[i].result.stdout))

Min(S) == CHOOSE i \in S : \A j \in S : i <= j
Max(S) == CHOOSE i \in S : \A j \in S : i >= j

\* the text before and after the first occurrence of sep
Before(s, sep) == SubSeq(s, 1, find(s, sep) - 1)
After(s, sep) == SubSeq(s, find(s, sep) + Len(sep), Len(s))

IsLicenseLine(line) == startswith(lower(line), LicensePrefix)
IsHomePageLine(line) == startswith(lower(line), HomePagePrefix)

Record(package_name) == dependencies.val[package_name]
Field(package_name, key) == dependencies.val[package_name].val[key]
Has(package_name, key) == key \in DOMAIN dependencies.val[package_name].val
Packages == Range(dependencies.keys)

\* the JSON text of a report read back: an object of objects of strings, with
\* the members in the order of the text
RECURSIVE JsonRead(_, _, _)
JsonRead(lines, acc, current) ==
    IF lines = <<>> THEN acc
    ELSE LET t == strip(Head(lines))
         IN  IF t = <<>> \/ t[1] # "\""
             THEN JsonRead(Tail(lines), acc, current)
             ELSE IF t[Len(t)] = "{"
             THEN LET name == SubSeq(t, 2, find(t, <<"\"", ":", " ", "{">>) - 1)
                  IN  JsonRead(Tail(lines),
                               [keys |-> Append(acc.keys, name),
                                val  |-> (name :> [keys |-> <<>>, val |-> <<>>]) @@ acc.val],
                               name)
             ELSE LET key == SubSeq(t, 2, find(t, <<"\"", ":", " ", "\"">>) - 1)
                      rest == After(t, <<"\"", ":", " ", "\"">>)
                      value == IF rest[Len(rest)] = ","
                               THEN SubSeq(rest, 1, Len(rest) - 2)
                               ELSE SubSeq(rest, 1, Len(rest) - 1)
                      obj == acc.val[current]
                  IN  JsonRead(Tail(lines),
                               [acc EXCEPT !.val[current] =
                                    [keys |-> Append(obj.keys, key),
                                     val  |-> (key :> value) @@ obj.val]],
                               current)

json_loads(text) == JsonRead(splitlines(text), [keys |-> <<>>, val |-> <<>>], <<>>)

\* a JSON report was printed
JsonPrinted == output_format = "json" /\ stdout # <<>>
PrintedJson == json_loads(stdout)

\* the content of a JSON object of objects, member order ignored
Content(obj) == [name \in Range(obj.keys) |-> obj.val[name].val]

-----------------------------------------------------------------------------
\* C1 (enumeration): once "pip freeze" has succeeded, every line of its output
\* that contains "==" has an entry in the mapping whose name is the text before
\* the first "==" and whose version is the text after it, also when the line
\* holds "==" more than once; the lines without "==" give no entry, and the
\* run is not ended by the enumeration.
C1_EnumerationSplitsOnFirstSeparator ==
    (FreezeDone /\ Succeeded(1)) =>
        LET lines == OutputLines(1)
            records == {i \in 1..Len(lines) : contains(lines[i], EqEq)}
        IN  /\ \A i \in records :
                  /\ Before(lines[i], EqEq) \in Packages
                  /\ Has(Before(lines[i], EqEq), KeyVersion)
                  /\ Field(Before(lines[i], EqEq), KeyVersion) = After(lines[i], EqEq)
            /\ Packages = {Before(lines[i], EqEq) : i \in records}
            /\ exit_status # {1}

\* the scenario of C2 has run to its end, with a JSON report asked for
C2_ScenarioRan ==
    /\ pc = "exited"
    /\ output_format = "json"
    /\ Len(calls) = 3
    /\ calls[1].result = Ok(<<"a", "l", "p", "h", "a", "=", "=", "1", ".", "0", "\n", "b", "e", "t", "a", "=", "=", "2", ".", "3", "\n">>)
    /\ calls[2].result = Ok(<<"L", "i", "c", "e", "n", "s", "e", ":", " ", "M", "I", "T", "\n", "H", "o", "m", "e", "-", "p", "a", "g", "e", ":", " ", "h", "t", "t", "p", ":", "/", "/", "a", ".", "e", "x", "a", "m", "p", "l", "e", "\n">>)
    /\ calls[3].result.status # "ok"

\* C2 (end-to-end scenario): "pip freeze" wrote "alpha==1.0\nbeta==2.3\n",
\* "pip show alpha" wrote "License: MIT\nHome-page: http://a.example\n", "pip
\* show beta" failed, and the run is over: it ended with status 0 and the JSON
\* report holds exactly alpha = {version 1.0, license MIT, homepage
\* http://a.example} and beta = {version 2.3, license UNKNOWN}.
C2_ScenarioReport ==
    C2_ScenarioRan =>
        /\ exit_status = {0}
        /\ Content(PrintedJson) =
               (<<"a", "l", "p", "h", "a">> :> (KeyVersion :> <<"1", ".", "0">> @@ KeyLicense :> <<"M", "I", "T">>
                              @@ KeyHomepage :> <<"h", "t", "t", "p", ":", "/", "/", "a", ".", "e", "x", "a", "m", "p", "l", "e">>))
               @@ (<<"b", "e", "t", "a">> :> (KeyVersion :> <<"2", ".", "3">> @@ KeyLicense :> UNKNOWN))

\* C3 (a failed lookup is contained): whenever "pip show" for a package P has
\* failed (non-zero exit status, or the command could not be launched), P's
\* license is exactly UNKNOWN, the run has not been ended with status 1, the
\* loop has moved on past P, and a run that is over has invoked "pip show"
\* for every package of the mapping, has printed its report and has ended
\* with status 0.
C3_FailedLookupIsContained ==
    \A i \in ShowCalls :
        ~Succeeded(i) =>
            /\ Has(calls[i].package_name, KeyLicense)
            /\ Field(calls[i].package_name, KeyLicense) = UNKNOWN
            /\ exit_status # {1}
            /\ idx = Len(calls)
            /\ pc = "exited" =>
                   /\ exit_status = {0}
                   /\ stdout # <<>>
                   /\ Len(calls) = 1 + Len(dependencies.keys)
                   /\ \A j \in ShowCalls : calls[j].package_name = dependencies.keys[j - 1]

\* a run that is over, whose first lookup failed and whose second succeeded
\* and found a license
C3_Witness ==
    /\ pc = "exited"
    /\ exit_status = {0}
    /\ Len(calls) = 3
    /\ calls[2].result.status = "nonzero"
    /\ Succeeded(3)
    /\ Field(calls[3].package_name, KeyLicense) = <<"M", "I", "T">>
    /\ Field(calls[2].package_name, KeyLicense) = UNKNOWN

\* C4 (a failed enumeration is fatal): when "pip freeze" exits with a non-zero
\* status or cannot be launched, the run is over with exit status 1, "pip show"
\* was never invoked and nothing was written to standard output.
C4_FailedEnumerationIsFatal ==
    (FreezeDone /\ ~Succeeded(1)) =>
        /\ pc = "exited"
        /\ exit_status = {1}
        /\ Len(calls) = 1
        /\ stdout = <<>>

\* "pip freeze" could not be launched and the run is over
C4_Witness ==
    /\ FreezeDone
    /\ calls[1].cmd = CmdFreeze
    /\ calls[1].result = NoLaunch
    /\ pc = "exited"

\* C5 (license extraction): for every "pip show" that succeeded, the recorded
\* license is the trimmed text after the first colon of the first line of the
\* output whose lower-cased form starts with "license:", whatever follows that
\* line; it is exactly UNKNOWN when the output has no such line.
C5_LicenseIsFirstLicenseLine ==
    \A i \in ShowCalls :
        Succeeded(i) =>
            LET lines == OutputLines(i)
                licenses == {j \in 1..Len(lines) : IsLicenseLine(lines[j])}
                p == calls[i].package_name
            IN  /\ Has(p, KeyLicense)
                /\ Field(p, KeyLicense) =
                       IF licenses = {} THEN UNKNOWN
                       ELSE strip(After(lines[Min(licenses)], Colon))

\* an output with two License lines, of which the first was recorded
C5_Witness ==
    \E i \in ShowCalls :
        /\ calls[i].result = Ok(<<"L", "I", "C", "E", "N", "S", "E", ":", "G", "P", "L", "\n", "L", "i", "c", "e", "n", "s", "e", ":", " ", "M", "I", "T", "\n">>)
        /\ Field(calls[i].package_name, KeyLicense) = <<"G", "P", "L">>

\* C6 as stated (member order of the JSON report): in every record of a
\* printed JSON report the members come in the order version, license,
\* homepage (when present).
C6_JsonOrderVersionLicenseHomepage ==
    JsonPrinted =>
        LET report == PrintedJson
        IN  \A name \in Range(report.keys) :
                report.val[name].keys \in
                    {<<KeyVersion, KeyLicense>>, <<KeyVersion, KeyLicense, KeyHomepage>>}

\* C6 as amended: in every record of a printed JSON report the members come
\* in the order version, homepage (when present), license.
C6_JsonOrderVersionHomepageLicense ==
    JsonPrinted =>
        LET report == PrintedJson
        IN  \A name \in Range(report.keys) :
                report.val[name].keys \in
                    {<<KeyVersion, KeyLicense>>, <<KeyVersion, KeyHomepage, KeyLicense>>}

\* a printed JSON report with a record that has a homepage and a license
C6_Witness ==
    /\ JsonPrinted
    /\ LET report == PrintedJson
       IN  \E name \in Range(report.keys) :
               {KeyHomepage, KeyLicense} \subseteq Range(report.val[name].keys)

\* C7 (validation first): while the project path is not a directory no command
\* has been invoked and nothing has been printed, the run is either not yet
\* validated or over, and when over its exit status is 1; a command has been
\* invoked only in a run whose path is a directory and which is past validation.
C7_ValidationPrecedesAllWork ==
    /\ ~project_is_dir =>
           /\ calls = <<>>
           /\ stdout = <<>>
           /\ pc \in {"main", "exited"}
           /\ pc = "exited" => exit_status = {1}
    /\ calls # <<>> => (project_is_dir /\ pc # "main")

\* the run of an invalid path is over
C7_Witness ==
    /\ ~project_is_dir
    /\ pc = "exited"
    /\ exit_status = {1}

\* the package names of the lines with "==", in the order of their first occurrence
RECURSIVE FirstOccurrences(_, _)
FirstOccurrences(lines, seen) ==
    IF lines = <<>> THEN seen
    ELSE LET line == Head(lines)
         IN  IF contains(line, EqEq) /\ Before(line, EqEq) \notin Range(seen)
             THEN FirstOccurrences(Tail(lines), Append(seen, Before(line, EqEq)))
             ELSE FirstOccurrences(Tail(lines), seen)

\* C8 (pipeline order): the first command is "pip freeze"; every later one is
\* "pip show", the k-th of them for the k-th distinct package name of the
\* freeze output, so each package is looked up once, in insertion order, after
\* the enumeration; a report is printed only when "pip show" has been invoked
\* for every package of the mapping and every record has a license.
C8_PipelineOrder ==
    /\ FreezeDone => calls[1].cmd = CmdFreeze
    /\ \A i \in ShowCalls :
           LET order == FirstOccurrences(OutputLines(1), <<>>)
           IN  /\ Succeeded(1)
               /\ calls[i].cmd = CmdShow
               /\ i - 1 <= Len(order)
               /\ calls[i].package_name = order[i - 1]
               /\ dependencies.keys = order
    /\ stdout # <<>> =>
           /\ FreezeDone
           /\ Len(calls) = 1 + Len(dependencies.keys)
           /\ \A p \in Packages : Has(p, KeyLicense)

\* a report printed after beta, then alpha, were looked up
C8_Witness ==
    /\ stdout # <<>>
    /\ Len(calls) = 3
    /\ calls[2].package_name = <<"b", "e", "t", "a">>
    /\ calls[3].package_name = <<"a", "l", "p", "h", "a">>

\* C9 (homepage depends on the order of the lines): for every "pip show" that
\* succeeded, the record has a homepage exactly when a line whose lower-cased
\* form starts with "home-page:" comes before the first line starting with
\* "license:" (anywhere when there is none), and the homepage is the trimmed
\* text after the first colon of the last such line; a Home-page line after
\* the License line is missed.
C9_HomepageOnlyBeforeLicense ==
    \A i \in ShowCalls :
        Succeeded(i) =>
            LET lines == OutputLines(i)
                licenses == {j \in 1..Len(lines) : IsLicenseLine(lines[j])}
                stop == IF licenses = {} THEN Len(lines) + 1 ELSE Min(licenses)
                homepages == {j \in 1..(stop - 1) : IsHomePageLine(lines[j])}
                p == calls[i].package_name
            IN  /\ Has(p, KeyHomepage) <=> homepages # {}
                /\ homepages # {} =>
                       Field(p, KeyHomepage) = strip(After(lines[Max(homepages)], Colon))

\* the License line came first and the homepage was missed
C9_Witness ==
    \E i \in ShowCalls :
        /\ calls[i].result = Ok(<<"L", "i", "c", "e", "n", "s", "e", ":", " ", "M", "I", "T", "\n", "H", "o", "m", "e", "-", "p", "a", "g", "e", ":", " ", "h", "t", "t", "p", ":", "/", "/", "a", ".", "e", "x", "a", "m", "p", "l", "e", "\n">>)
        /\ ~Has(calls[i].package_name, KeyHomepage)

\* a record that is not yet looked up holds its version only
C10_Unresolved ==
    pc = "resolve" =>
        \A k \in idx..Len(dependencies.keys) :
            Record(dependencies.keys[k]).keys = <<KeyVersion>>

\* what a step of the resolution may change
C10_Step ==
    pc \in {"resolve", "exited"} =>
        /\ dependencies'.keys = dependencies.keys
        /\ DOMAIN dependencies'.val = DOMAIN dependencies.val
        /\ \A p \in Packages :
               /\ KeyVersion \in DOMAIN dependencies'.val[p].val
               /\ dependencies'.val[p].val[KeyVersion] = Field(p, KeyVersion)
               /\ dependencies'.val[p] # Record(p) =>
                      /\ pc = "resolve"
                      /\ idx <= Len(dependencies.keys)
                      /\ p = dependencies.keys[idx]
                      /\ idx' = idx + 1
        /\ (pc = "resolve" /\ idx' = idx + 1) =>
               LET after == dependencies'.val[dependencies.keys[idx]]
               IN  /\ after # Record(dependencies.keys[idx])
                   /\ KeyLicense \in Range(after.keys)
                   /\ Range(after.keys) \subseteq {KeyVersion, KeyLicense, KeyHomepage}

\* C10 (record lifecycle): after the enumeration every record not yet looked
\* up holds its version and nothing else; a step of the resolution adds no
\* record, deletes none and changes no version; it changes at most the record
\* of the package being looked up, which gains a license and possibly a
\* homepage and nothing else; the other records are left as they are, and
\* nothing changes a record once the run is over.
C10_RecordLifecycle == []C10_Unresolved /\ [][C10_Step]_vars

\* the first of two packages is resolved, with a homepage, the second is not
C10_Witness ==
    /\ pc = "resolve"
    /\ idx = 2
    /\ Len(dependencies.keys) = 2
    /\ Has(dependencies.keys[1], KeyHomepage)
    /\ Has(dependencies.keys[1], KeyLicense)
    /\ Record(dependencies.keys[2]).keys = <<KeyVersion>>

====
